---- MODULE Spec2Model ----
(***************************************************************************)
(* A model of two parts of the repository:                                 *)
(*   - ProjectIndexTool::execute (crates/assistant2/src/tools.rs): the     *)
(*     fan-out of one file load per search hit, the clamping and char-     *)
(*     boundary alignment of the hit's byte range, and the gather;         *)
(*   - the embedding providers and normalize_embedding                     *)
(*     (crates/semantic_index/src/embedding.rs).                           *)
(* Spec is the specification of execute, EmbedSpec that of the providers,  *)
(* BindSpec that of normalize_embedding applied to a vector and a model.   *)
(***************************************************************************)
EXTENDS Integers, Sequences, FiniteSets, TLC

VARIABLES
    pc,              \* position of the task spawned by execute
    overflow_checks, \* build profile: TRUE when `+=` panics on overflow
    hits,            \* the search results, in rank order
    status,          \* per hit: state of its future inside join_all
    adj,             \* per hit: (start, end) when both while loops finished
    excerpts,        \* per hit: the CodebaseExcerpt its future returned
    result,          \* what the task resolved to
    provider,        \* which EmbeddingProvider implementation
    model,           \* the provider's configured EmbeddingModel
    epc,             \* position inside get_embedding
    calls,           \* number of get_embedding calls so far
    requests,        \* number of calls made on the HTTP client so far
    response,        \* this call: the body the server sent
    received,        \* this call: what read_to_end left in `body`
    transport,       \* this call: where the transport failed, if it did
    bound,           \* this call: the arguments normalize_embedding got
    eresult,         \* this call: what get_embedding returned
    nin,             \* arguments of a direct call of normalize_embedding
    nout,            \* what that call returned
    fin,             \* the excerpts format_output is given
    fout,            \* the String format_output returned
    vin,             \* the Vec<f32> normalize_vector is given
    vout             \* the Vec<f32> normalize_vector returned

tvars == <<pc, overflow_checks, hits, status, adj, excerpts, result>>
evars == <<provider, model, epc, calls, requests, response, received,
           transport, bound, eresult>>
nvars == <<nin, nout>>
fvars == <<fin, fout>>
vvars == <<vin, vout>>
vars == <<tvars, evars, nvars, fvars, vvars>>

\* the absent value of an Option
None == [none |-> TRUE]

\* format_output is not being called
FInitIdle ==
    /\ fin = <<>>
    /\ fout = None

\* normalize_vector is not being called on its own
VInitIdle ==
    /\ vin = <<>>
    /\ vout = None

(***************************************************************************)
(* Bounds of the model.                                                    *)
(***************************************************************************)
\* longest list of hits the index returns
MaxHits == 2
\* largest byte offset a hit's range mentions
MaxOff == 3
\* width of usize in bits, scaled down so that the overflow is reached
UsizeBits == 3
\* longest `data` array of an OpenAI response
MaxData == 2
\* number of get_embedding calls followed
MaxCalls == 2

UsizeMax == 2^UsizeBits - 1

Min(a, b) == IF a <= b THEN a ELSE b

(***************************************************************************)
(* Paths and file contents.  A path is a sequence of bytes (an OsStr on    *)
(* Unix), a text a sequence of UTF-8 bytes.                                *)
(***************************************************************************)
PathA == <<97>>
PathRaw == <<255>>
Paths == {PathA, PathRaw}

\* "a" followed by U+20AC (three bytes)
TextA == <<97, 226, 130, 172>>
\* U+00E9 (two bytes)
TextE == <<195, 169>>

\* the content fs.load returns for a path when it succeeds
Fs(path) == IF path = PathA THEN TextA ELSE TextE

\* Path::to_string_lossy: every byte that is no valid UTF-8 becomes U+FFFD;
\* the paths of the model are single bytes, valid iff ASCII
to_string_lossy(path) == [k \in 1..Len(path) |-> IF path[k] < 128 THEN path[k] ELSE 65533]

\* the score the index gives the hit of rank i: descending relevance
ScoreOf(i) == 100 - i

(***************************************************************************)
(* str::is_char_boundary, str indexing.                                    *)
(***************************************************************************)
is_char_boundary(text, index) ==
    IF index = 0 THEN TRUE
    ELSE IF index >= Len(text) THEN index = Len(text)
    ELSE text[index + 1] < 128 \/ text[index + 1] >= 192

\* &text[start..end]: panics unless start <= end <= len, both on boundaries
SliceOk(text, start, end) ==
    /\ start <= end
    /\ end <= Len(text)
    /\ is_char_boundary(text, start)
    /\ is_char_boundary(text, end)

Slice(text, start, end) == SubSeq(text, start + 1, end)

(***************************************************************************)
(* The body of the per-hit future after fs.load returned `text`.           *)
(***************************************************************************)
\* let mut end = result.range.end.min(text.len());
ClampEnd(end, text) == Min(end, Len(text))

\* start += 1
StartStep(start) == start + 1

\* a slip: the end loop steps like the start loop
EndStep_Forward(end) == end + 1

\* end -= 1
EndStep(end) == end - 1

\* while !text.is_char_boundary(start) { start += 1; }
\* kind "at": the loop ended with start = at; kind "overflow": start reached
\* usize::MAX without meeting a boundary and `start += 1` overflowed
RECURSIVE WalkStart(_, _, _)
WalkStart(text, start, steps) ==
    IF is_char_boundary(text, start)
    THEN [kind |-> "at", at |-> start, steps |-> steps]
    ELSE IF start >= UsizeMax
    THEN [kind |-> "overflow", at |-> start, steps |-> steps + 1]
    ELSE WalkStart(text, StartStep(start), steps + 1)

\* while !text.is_char_boundary(end) { end -= 1; }
RECURSIVE WalkEnd(_, _, _)
WalkEnd(text, end, steps) ==
    IF is_char_boundary(text, end)
    THEN [kind |-> "at", at |-> end, steps |-> steps]
    ELSE IF end = 0
    THEN [kind |-> "overflow", at |-> end, steps |-> steps + 1]
    ELSE WalkEnd(text, EndStep(end), steps + 1)

\* The start loop under the build profile: with overflow checks the
\* overflowing `start += 1` panics; without them start wraps to 0, which is
\* a char boundary, and the loop ends there.
StartLoop(text, start, checks) ==
    LET w == WalkStart(text, start, 0)
    IN  IF w.kind = "at" THEN w
        ELSE IF checks THEN [kind |-> "panic", at |-> w.at, steps |-> w.steps]
        ELSE [kind |-> "at", at |-> 0, steps |-> w.steps]

\* lines 114-129: the outcome of one hit once its text is loaded
\*   kind "excerpt": anyhow::Ok(CodebaseExcerpt {..})
\*   kind "panic"  : the future panicked (overflow, or the slice)
Continue(hit, text, checks) ==
    LET s == StartLoop(text, hit.start, checks)
    IN  IF s.kind = "panic"
        THEN [kind |-> "panic", adj |-> None, excerpt |-> None]
        ELSE LET e == WalkEnd(text, ClampEnd(hit.end, text), 0)
                 a == [start |-> s.at, end |-> e.at,
                       ssteps |-> s.steps, esteps |-> e.steps]
             IN  IF e.kind # "at"
                 THEN [kind |-> "panic", adj |-> None, excerpt |-> None]
                 ELSE IF ~SliceOk(text, s.at, e.at)
                 THEN [kind |-> "panic", adj |-> a, excerpt |-> None]
                 ELSE [kind |-> "excerpt", adj |-> a,
                       excerpt |-> [path |-> to_string_lossy(hit.path),
                                    text |-> Slice(text, s.at, e.at),
                                    score |-> hit.score]]

(***************************************************************************)
(* join_all(..).await.into_iter().filter_map(|r| r.log_err()).collect()    *)
(***************************************************************************)
\* a slip: each success is put in front of the ones gathered so far
RECURSIVE FilterMapOk_Reversed(_, _, _)
FilterMapOk_Reversed(st, ex, i) ==
    IF i > Len(st) THEN <<>>
    ELSE IF st[i] = "ok" THEN FilterMapOk_Reversed(st, ex, i + 1) \o <<ex[i]>>
    ELSE FilterMapOk_Reversed(st, ex, i + 1)

RECURSIVE FilterMapOk(_, _, _)
FilterMapOk(st, ex, i) ==
    IF i > Len(st) THEN <<>>
    ELSE IF st[i] = "ok" THEN <<ex[i]>> \o FilterMapOk(st, ex, i + 1)
    ELSE FilterMapOk(st, ex, i + 1)

\* join_all is ready once no future is pending
AllReady(st) == \A i \in DOMAIN st : st[i] # "loading"

\* the task's state after a poll of join_all that left the futures in st
Gather(st, ex) ==
    IF AllReady(st)
    THEN /\ pc' = "done"
         /\ result' = [ok |-> TRUE, value |-> FilterMapOk(st, ex, 1)]
    ELSE /\ pc' = "loading"
         /\ result' = None

(***************************************************************************)
(* The hits a search can return.                                           *)
(***************************************************************************)
Ranges == {r \in (0..MaxOff) \X (0..MaxOff) : r[1] <= r[2]}

Batches ==
    UNION {[1..n -> Paths \X Ranges] : n \in 0..MaxHits}

MakeHits(b) ==
    [i \in 1..Len(b) |-> [path |-> b[i][1], start |-> b[i][2][1],
                          end |-> b[i][2][2], score |-> ScoreOf(i)]]

(***************************************************************************)
(* Actions of execute.                                                     *)
(***************************************************************************)
TIdle ==
    /\ pc = "idle"
    /\ hits = <<>>
    /\ status = <<>>
    /\ adj = <<>>
    /\ excerpts = <<>>
    /\ result = None

TInitIdle ==
    /\ overflow_checks = TRUE
    /\ TIdle

TInit ==
    /\ pc = "idle"
    /\ overflow_checks \in BOOLEAN
    /\ hits = <<>>
    /\ status = <<>>
    /\ adj = <<>>
    /\ excerpts = <<>>
    /\ result = None

\* execute: the search is issued and the task spawned
execute ==
    /\ pc = "idle"
    /\ pc' = "searching"
    /\ UNCHANGED <<overflow_checks, hits, status, adj, excerpts, result, evars, nvars, fvars, vvars>>

\* results.await returns the batch b; the map closure resolves each hit's
\* absolute path (hits outside `resolved` fail there), and the first poll of
\* join_all starts the load of every resolved hit
StartLoads(b, resolved) ==
    /\ hits' = MakeHits(b)
    /\ status' = [i \in 1..Len(b) |-> IF i \in resolved THEN "loading" ELSE "err"]
    /\ adj' = [i \in 1..Len(b) |-> None]
    /\ excerpts' = [i \in 1..Len(b) |-> None]
    /\ Gather(status', excerpts')
    /\ UNCHANGED <<overflow_checks, evars, nvars, fvars, vvars>>

SearchCompletes ==
    /\ pc = "searching"
    /\ \E b \in Batches : \E resolved \in SUBSET (1..Len(b)) : StartLoads(b, resolved)

\* fs.load of hit i fails: its future returns Err
LoadFails(i) ==
    /\ pc = "loading"
    /\ i \in DOMAIN status
    /\ status[i] = "loading"
    /\ status' = [status EXCEPT ![i] = "err"]
    /\ Gather(status', excerpts)
    /\ UNCHANGED <<overflow_checks, hits, adj, excerpts, evars, nvars, fvars, vvars>>

\* fs.load of hit i returns the file's text: the rest of its future runs
LoadSucceeds(i) ==
    /\ pc = "loading"
    /\ i \in DOMAIN status
    /\ status[i] = "loading"
    /\ LET out == Continue(hits[i], Fs(hits[i].path), overflow_checks)
       IN  /\ adj' = [adj EXCEPT ![i] = out.adj]
           /\ IF out.kind = "panic"
              THEN /\ status' = [status EXCEPT ![i] = "panic"]
                   /\ excerpts' = excerpts
                   /\ pc' = "panicked"
                   /\ result' = None
              ELSE /\ status' = [status EXCEPT ![i] = "ok"]
                   /\ excerpts' = [excerpts EXCEPT ![i] = out.excerpt]
                   /\ Gather(status', excerpts')
    /\ UNCHANGED <<overflow_checks, hits, evars, nvars, fvars, vvars>>

(***************************************************************************)
(* Embeddings.  A Vec<f32> is modelled by its length and by what its       *)
(* components are: "x" and "y" are two different non-zero contents, "zero" *)
(* is all zeros, "empty" the content of the vector of length 0.            *)
(***************************************************************************)
EMBEDDING_SIZE_TINY == 768
EMBEDDING_SIZE_XSMALL == 1024
EMBEDDING_SIZE_SMALL == 1536
EMBEDDING_SIZE_LARGE == 3072

EmbeddingModel ==
    {"OllamaNomicEmbedText", "OllamaMxbaiEmbedLarge",
     "OpenaiTextEmbedding3Small", "OpenaiTextEmbedding3Large"}

\* the lengths of the vectors a response or a caller supplies
VecLens ==
    {0, 1, EMBEDDING_SIZE_TINY, EMBEDDING_SIZE_TINY + 1, EMBEDDING_SIZE_XSMALL,
     EMBEDDING_SIZE_SMALL, EMBEDDING_SIZE_LARGE - 1, EMBEDDING_SIZE_LARGE}

Vectors ==
    {[len |-> 0, comp |-> "empty"]}
        \cup [len : VecLens \ {0}, comp : {"zero", "x", "y"}]

Ok(v) == [ok |-> TRUE, value |-> v]
Err(msg) == [ok |-> FALSE, error |-> msg]

\* the error messages of embedding.rs
InvalidModel == "Invalid model"
FailedToEmbed == "failed to embed"
UnableToPull == "Unable to pull response"
Mismatched == "Invalid or mismatched embedding size"
NoEmbeddingData == "No embedding data found in response"
FailedToConvert == "Failed to convert"
InvalidHeader == "invalid header value"

\* normalize_vector: every component divided by the norm; the length is
\* kept; a zero norm gives NaN components
normalize_vector(embedding) ==
    [len |-> embedding.len,
     comp |-> CASE embedding.comp = "empty" -> "empty"
                [] embedding.comp = "zero" -> "nan"
                [] OTHER -> <<embedding.comp, "unit">>]

\* Vec<f32>::try_into::<[f32; n]>()
try_into(embedding, n) ==
    IF embedding.len = n THEN Ok(embedding) ELSE Err(FailedToConvert)

\* one arm of normalize_embedding's match: Ok(Embedding::tag(try_into()?))
Arm(tag, embedding, n) ==
    LET a == try_into(embedding, n)
    IN  IF a.ok THEN Ok([tag |-> tag, array |-> a.value]) ELSE a

\* a slip: the guard of the last arm compares with the wrong constant
normalize_embedding_WrongSize(embedding0, embedding_type) ==
    LET embedding == normalize_vector(embedding0)
    IN  IF embedding_type = "OllamaNomicEmbedText"
              /\ embedding.len = EMBEDDING_SIZE_TINY
        THEN Arm("OllamaNomicEmbedText", embedding, EMBEDDING_SIZE_TINY)
        ELSE IF embedding_type = "OllamaMxbaiEmbedLarge"
              /\ embedding.len = EMBEDDING_SIZE_XSMALL
        THEN Arm("OllamaMxbaiEmbedLarge", embedding, EMBEDDING_SIZE_XSMALL)
        ELSE IF embedding_type = "OpenaiTextEmbedding3Small"
              /\ embedding.len = EMBEDDING_SIZE_SMALL
        THEN Arm("OpenaiTextEmbedding3Small", embedding, EMBEDDING_SIZE_SMALL)
        ELSE IF embedding_type = "OpenaiTextEmbedding3Large"
              /\ embedding.len = EMBEDDING_SIZE_SMALL
        THEN Arm("OpenaiTextEmbedding3Large", embedding, EMBEDDING_SIZE_LARGE)
        ELSE Err(Mismatched)

\* a slip: the variant is picked by the vector's length, not by the model
normalize_embedding_ByLength(embedding0, embedding_type) ==
    LET embedding == normalize_vector(embedding0)
    IN  IF embedding.len = EMBEDDING_SIZE_TINY
        THEN Arm("OllamaNomicEmbedText", embedding, EMBEDDING_SIZE_TINY)
        ELSE IF embedding.len = EMBEDDING_SIZE_XSMALL
        THEN Arm("OllamaMxbaiEmbedLarge", embedding, EMBEDDING_SIZE_XSMALL)
        ELSE IF embedding.len = EMBEDDING_SIZE_SMALL
        THEN Arm("OpenaiTextEmbedding3Small", embedding, EMBEDDING_SIZE_SMALL)
        ELSE IF embedding.len = EMBEDDING_SIZE_LARGE
        THEN Arm("OpenaiTextEmbedding3Large", embedding, EMBEDDING_SIZE_LARGE)
        ELSE Err(Mismatched)

normalize_embedding(embedding0, embedding_type) ==
    LET embedding == normalize_vector(embedding0)
    IN  IF embedding_type = "OllamaNomicEmbedText"
              /\ embedding.len = EMBEDDING_SIZE_TINY
        THEN Arm("OllamaNomicEmbedText", embedding, EMBEDDING_SIZE_TINY)
        ELSE IF embedding_type = "OllamaMxbaiEmbedLarge"
              /\ embedding.len = EMBEDDING_SIZE_XSMALL
        THEN Arm("OllamaMxbaiEmbedLarge", embedding, EMBEDDING_SIZE_XSMALL)
        ELSE IF embedding_type = "OpenaiTextEmbedding3Small"
              /\ embedding.len = EMBEDDING_SIZE_SMALL
        THEN Arm("OpenaiTextEmbedding3Small", embedding, EMBEDDING_SIZE_SMALL)
        ELSE IF embedding_type = "OpenaiTextEmbedding3Large"
              /\ embedding.len = EMBEDDING_SIZE_LARGE
        THEN Arm("OpenaiTextEmbedding3Large", embedding, EMBEDDING_SIZE_LARGE)
        ELSE Err(Mismatched)

(***************************************************************************)
(* Response bodies.  A document is the JSON text the server produced:      *)
(* not JSON at all, or an object with some top-level fields.               *)
(***************************************************************************)
DataArrays == UNION {[1..n -> Vectors] : n \in 0..MaxData}

Garbage == [json |-> FALSE, fields |-> {}, embedding |-> None, data |-> <<>>]

OllamaDocs ==
    {[json |-> TRUE, fields |-> {"embedding"}, embedding |-> v, data |-> <<>>] :
        v \in Vectors}

OpenaiDocs ==
    {[json |-> TRUE, fields |-> {"object", "data", "model"}, embedding |-> None,
      data |-> d] : d \in DataArrays}

\* an OpenAI-like object without its `object` and `model` fields
BareDataDocs ==
    {[json |-> TRUE, fields |-> {"data"}, embedding |-> None, data |-> <<v>>] :
        v \in Vectors}

Documents == {Garbage} \cup OllamaDocs \cup OpenaiDocs \cup BareDataDocs

\* how response.body_mut().read_to_end(&mut body) can end:
\*   "complete"   Ok: every byte arrived
\*   "cut_inside" Err: the connection failed with part of the document read
\*   "cut_after"  Err: the connection failed after the last byte of the
\*                document (before the end of the stream was seen)
ReadOutcomes == {"complete", "cut_inside", "cut_after"}

\* what is in `body` after read_to_end: the bytes read before the error
\* stay in the buffer; a proper prefix of a document is not JSON
read_to_end(doc, outcome) == IF outcome = "cut_inside" THEN Garbage ELSE doc

\* serde_json::from_slice::<OllamaEmbeddingResponse>
ParseOllama(body) ==
    IF body.json /\ "embedding" \in body.fields
    THEN Ok([embedding |-> body.embedding])
    ELSE Err(UnableToPull)

\* serde_json::from_slice::<OpenaiEmbeddingResponse>
ParseOpenai(body) ==
    IF body.json /\ {"object", "data", "model"} \subseteq body.fields
    THEN Ok([data |-> body.data])
    ELSE Err(UnableToPull)

(***************************************************************************)
(* The providers.                                                          *)
(***************************************************************************)
Providers == {"ollama", "openai"}

\* a slip: the `_` arm falls back to a default name instead of returning
ModelName_Default(p, m) ==
    IF p = "ollama"
    THEN CASE m = "OllamaMxbaiEmbedLarge" -> Ok("mxbai-embed-large")
           [] OTHER -> Ok("nomic-embed-text")
    ELSE CASE m = "OpenaiTextEmbedding3Large" -> Ok("text-embedding-3-large")
           [] OTHER -> Ok("text-embedding-3-small")

\* the `match self.model` of each get_embedding: the model's name on the
\* wire, or the early return of the `_` arm
ModelName(p, m) ==
    IF p = "ollama"
    THEN CASE m = "OllamaNomicEmbedText" -> Ok("nomic-embed-text")
           [] m = "OllamaMxbaiEmbedLarge" -> Ok("mxbai-embed-large")
           [] OTHER -> Err(InvalidModel)
    ELSE CASE m = "OpenaiTextEmbedding3Small" -> Ok("text-embedding-3-small")
           [] m = "OpenaiTextEmbedding3Large" -> Ok("text-embedding-3-large")
           [] OTHER -> Err(InvalidModel)

\* a slip: response.data.last()
First_Last(data) == IF Len(data) = 0 THEN None ELSE data[Len(data)]

\* response.data.first()
First(data) == IF Len(data) = 0 THEN None ELSE data[1]

\* the statements after read_to_end(..).await.ok(): the decoded response
\* handed to normalize_embedding; the value is <<result, binder calls>>
Decode(p, m, body) ==
    IF p = "ollama"
    THEN LET r == ParseOllama(body)
         IN  IF ~r.ok THEN <<r, <<>>>>
             ELSE <<normalize_embedding(r.value.embedding, m),
                    <<[embedding |-> r.value.embedding, model |-> m]>>>>
    ELSE LET r == ParseOpenai(body)
         IN  IF ~r.ok THEN <<r, <<>>>>
             ELSE LET first_embedding == First(r.value.data)
                  IN  IF first_embedding # None
                      THEN <<normalize_embedding(first_embedding, m),
                             <<[embedding |-> first_embedding, model |-> m]>>>>
                      ELSE <<Err(NoEmbeddingData), <<>>>>

EIdle ==
    /\ epc = "idle"
    /\ calls = 0
    /\ requests = 0
    /\ response = None
    /\ received = None
    /\ transport = "no"
    /\ bound = <<>>
    /\ eresult = None

EInitIdle ==
    /\ provider = "ollama"
    /\ model = "OllamaNomicEmbedText"
    /\ EIdle

EInit ==
    /\ provider \in Providers
    /\ model \in EmbeddingModel
    /\ EIdle

NInitIdle ==
    /\ nin = None
    /\ nout = None

\* get_embedding up to its first await: the request is built and handed to
\* the HTTP client.  key_ok: the API key makes a valid header value.
get_embedding(key_ok) ==
    /\ epc = "idle"
    /\ calls < MaxCalls
    /\ calls' = calls + 1
    /\ response' = None
    /\ received' = None
    /\ transport' = "no"
    /\ bound' = <<>>
    /\ IF ~ModelName(provider, model).ok
       THEN /\ eresult' = ModelName(provider, model)
            /\ UNCHANGED <<epc, requests>>
       ELSE IF provider = "openai" /\ ~key_ok
       THEN /\ eresult' = Err(InvalidHeader)
            /\ UNCHANGED <<epc, requests>>
       ELSE /\ eresult' = None
            /\ epc' = "sending"
            /\ requests' = requests + 1
    /\ UNCHANGED <<provider, model, tvars, nvars, fvars, vvars>>

\* client.post_json(..).await / client.send(..).await returns Err
SendFails ==
    /\ epc = "sending"
    /\ transport' = "send"
    /\ eresult' = Err(FailedToEmbed)
    /\ epc' = "idle"
    /\ UNCHANGED <<provider, model, calls, requests, response, received, bound,
                   tvars, nvars, fvars, vvars>>

\* the client returns a response; its body is read next
ResponseArrives ==
    /\ epc = "sending"
    /\ \E doc \in Documents : response' = doc
    /\ epc' = "reading"
    /\ UNCHANGED <<provider, model, calls, requests, received, transport, bound,
                   eresult, tvars, nvars, fvars, vvars>>

\* read_to_end(&mut body).await.ok() and the rest of get_embedding
BodyRead ==
    /\ epc = "reading"
    /\ \E outcome \in ReadOutcomes :
        /\ received' = read_to_end(response, outcome)
        /\ transport' = IF outcome = "complete" THEN "no" ELSE "body"
    /\ LET d == Decode(provider, model, received')
       IN  /\ eresult' = d[1]
           /\ bound' = d[2]
    /\ epc' = "idle"
    /\ UNCHANGED <<provider, model, calls, requests, response, tvars, nvars, fvars, vvars>>

ENext == (\E key_ok \in BOOLEAN : get_embedding(key_ok))
            \/ SendFails \/ ResponseArrives \/ BodyRead

EmbedInit == TInitIdle /\ EInit /\ NInitIdle /\ FInitIdle /\ VInitIdle

EmbedSpec == EmbedInit /\ [][ENext]_vars

\* a caller applies normalize_embedding to a vector and a model
NInit ==
    /\ nin \in [embedding : Vectors, model : EmbeddingModel]
    /\ nout = None

Bind ==
    /\ nout = None
    /\ nout' = normalize_embedding(nin.embedding, nin.model)
    /\ UNCHANGED <<nin, tvars, evars, fvars, vvars>>

BindInit == TInitIdle /\ EInitIdle /\ NInit /\ FInitIdle /\ VInitIdle

BindSpec == BindInit /\ [][Bind]_vars

(***************************************************************************)
(* format_output.  Strings are sequences of UTF-8 bytes.                   *)
(***************************************************************************)
\* "Semantic search results for user query:\n"
Header == <<83, 101, 109, 97, 110, 116, 105, 99, 32, 115, 101, 97, 114, 99, 104, 32, 114, 101, 115, 117, 108, 116, 115, 32, 102, 111, 114, 32, 117, 115, 101, 114, 32, 113, 117, 101, 114, 121, 58, 10>>
\* "Excerpt from "
ExcerptFrom == <<69, 120, 99, 101, 114, 112, 116, 32, 102, 114, 111, 109, 32>>
\* ", score "
ScoreSep == <<44, 32, 115, 99, 111, 114, 101, 32>>
\* ":\n"
ColonNl == <<58, 10>>
\* "~~~\n"
Fence == <<126, 126, 126, 10>>

\* the UTF-8 bytes of a string of chars; the only non-ASCII char of a
\* display path is U+FFFD
RECURSIVE EncodeUtf8(_)
EncodeUtf8(chars) ==
    IF chars = <<>> THEN <<>>
    ELSE (IF Head(chars) < 128 THEN <<Head(chars)>> ELSE <<239, 191, 189>>)
            \o EncodeUtf8(Tail(chars))

\* excerpt.score.to_string() for a score that is a whole number
RECURSIVE to_string(_)
to_string(n) ==
    IF n < 10 THEN <<48 + n>> ELSE to_string(n \div 10) \o <<48 + (n % 10)>>

\* the push_str calls of one iteration of the loop
PushExcerpt(body, excerpt) ==
    body \o ExcerptFrom \o EncodeUtf8(excerpt.path) \o ScoreSep
         \o to_string(excerpt.score) \o ColonNl
         \o Fence \o excerpt.text \o Fence

\* for excerpt in excerpts { .. }
RECURSIVE FormatLoop(_, _, _)
FormatLoop(body, excerpts_, i) ==
    IF i > Len(excerpts_) THEN body
    ELSE FormatLoop(PushExcerpt(body, excerpts_[i]), excerpts_, i + 1)

format_output(excerpts_) == FormatLoop(Header, excerpts_, 1)

\* the excerpt texts format_output is tried on: "", "a", "a\n", "é\nb"
FormatTexts == {<<>>, <<97>>, <<97, 10>>, <<195, 169, 10, 98>>}

\* the lists of excerpts execute can hand over, by rank
ExcerptLists ==
    UNION {[1..n -> {to_string_lossy(q) : q \in Paths} \X FormatTexts] :
              n \in 0..MaxHits}

FInit ==
    /\ \E l \in ExcerptLists :
          fin = [i \in 1..Len(l) |->
                    [path |-> l[i][1], text |-> l[i][2], score |-> ScoreOf(i)]]
    /\ fout = None

FormatOutput ==
    /\ fout = None
    /\ fout' = [body |-> format_output(fin)]
    /\ UNCHANGED <<fin, tvars, evars, nvars, vvars>>

FormatInit == TInitIdle /\ EInitIdle /\ NInitIdle /\ FInit /\ VInitIdle

FormatSpec == FormatInit /\ [][FormatOutput]_vars

(***************************************************************************)
(* normalize_vector on f32 components.  An f32 is zero, infinite, NaN or   *)
(* a number s * m * 2^e with m odd (signs of zero and infinity are left    *)
(* out).  The vectors tried are those on which every f32 operation of      *)
(* normalize_vector is exact or overflows or underflows completely: the    *)
(* non-zero components of a vector all have the same magnitude 2^a, and    *)
(* there are 1 or 4 of them, so that the norm is a power of two.  A result *)
(* that would need a rounded mantissa is "inexact"; none is ever produced. *)
(***************************************************************************)
\* longest vector normalize_vector is tried on
MaxDim == 4

\* exponent of the largest power of two an f32 holds
F32MaxExp == 127
\* exponent of the smallest (subnormal) power of two an f32 holds
F32MinExp == -149
\* number of bits of an f32 mantissa
F32MantissaBits == 24

FZero == [k |-> "zero"]
FInf == [k |-> "inf"]
FNaN == [k |-> "nan"]
FInexact == [k |-> "inexact"]
FNum(s, m, e) == [k |-> "num", s |-> s, m |-> m, e |-> e]

\* number of bits of m > 0
RECURSIVE BitLen(_)
BitLen(m) == IF m <= 1 THEN 1 ELSE 1 + BitLen(m \div 2)

\* m * 2^e, m > 0, with m made odd
RECURSIVE OddForm(_, _)
OddForm(m, e) ==
    IF m % 2 = 1 THEN [m |-> m, e |-> e] ELSE OddForm(m \div 2, e + 1)

\* the f32 nearest to s * m * 2^e (m > 0): infinite above the range, zero
\* for a power of two at most half the smallest subnormal (ties to even)
Round32(s, m, e) ==
    LET o == OddForm(m, e)
    IN  IF o.e + BitLen(o.m) - 1 > F32MaxExp THEN FInf
        ELSE IF o.e >= F32MinExp /\ BitLen(o.m) <= F32MantissaBits
        THEN FNum(s, o.m, o.e)
        ELSE IF o.m = 1 THEN FZero
        ELSE FInexact

\* x * y
Mul32(x, y) ==
    IF x.k = "inexact" \/ y.k = "inexact" THEN FInexact
    ELSE IF x.k = "nan" \/ y.k = "nan" THEN FNaN
    ELSE IF x.k = "zero" \/ y.k = "zero"
    THEN (IF x.k = "inf" \/ y.k = "inf" THEN FNaN ELSE FZero)
    ELSE IF x.k = "inf" \/ y.k = "inf" THEN FInf
    ELSE Round32(x.s * y.s, x.m * y.m, x.e + y.e)

\* x + y for x, y that are not negative (norm only adds squares)
Add32(x, y) ==
    IF x.k = "inexact" \/ y.k = "inexact" THEN FInexact
    ELSE IF x.k = "nan" \/ y.k = "nan" THEN FNaN
    ELSE IF x.k = "inf" \/ y.k = "inf" THEN FInf
    ELSE IF x.k = "zero" THEN y
    ELSE IF y.k = "zero" THEN x
    ELSE LET lo == Min(x.e, y.e)
         IN  Round32(1, x.m * 2^(x.e - lo) + y.m * 2^(y.e - lo), lo)

\* a slip: norm is left squared
Sqrt32_Missing(x) == x

\* x.sqrt() for x that is not negative
Sqrt32(x) ==
    IF x.k # "num" THEN x
    ELSE IF x.m = 1 /\ x.e % 2 = 0 THEN FNum(1, 1, x.e \div 2)
    ELSE FInexact

\* x / y
Div32(x, y) ==
    IF x.k = "inexact" \/ y.k = "inexact" THEN FInexact
    ELSE IF x.k = "nan" \/ y.k = "nan" THEN FNaN
    ELSE IF y.k = "zero"
    THEN (IF x.k = "zero" THEN FNaN ELSE FInf)
    ELSE IF y.k = "inf"
    THEN (IF x.k = "inf" THEN FNaN ELSE FZero)
    ELSE IF x.k = "zero" \/ x.k = "inf" THEN x
    ELSE IF y.m = 1 THEN Round32(x.s * y.s, x.m, x.e - y.e)
    ELSE FInexact

\* for i in 0..len { norm += embedding[i] * embedding[i]; }
RECURSIVE SumSquares32(_, _, _)
SumSquares32(embedding, i, norm) ==
    IF i > Len(embedding) THEN norm
    ELSE SumSquares32(embedding, i + 1,
                      Add32(norm, Mul32(embedding[i], embedding[i])))

\* normalize_vector, component by component
normalize_vector_f32(embedding) ==
    LET norm == Sqrt32(SumSquares32(embedding, 1, FZero))
    IN  [i \in 1..Len(embedding) |-> Div32(embedding[i], norm)]

\* the exponents a of the magnitudes 2^a tried: squares that underflow
\* (-75), are subnormal (-74), are the smallest normal f32 (-63), are
\* ordinary, overflow when four are added (63), overflow at once (64)
Exps == {-75, -74, -63, 0, 1, 62, 63, 64}

\* the patterns of signs: no, one or four non-zero components
SignPatterns ==
    {p \in UNION {[1..n -> {-1, 0, 1}] : n \in 0..MaxDim} :
        Cardinality({i \in DOMAIN p : p[i] # 0}) \in {0, 1, 4}}

VInit ==
    /\ \E a \in Exps : \E p \in SignPatterns :
          vin = [i \in 1..Len(p) |-> IF p[i] = 0 THEN FZero ELSE FNum(p[i], 1, a)]
    /\ vout = None

NormalizeVector ==
    /\ vout = None
    /\ vout' = [value |-> normalize_vector_f32(vin)]
    /\ UNCHANGED <<vin, tvars, evars, nvars, fvars>>

NormInit == TInitIdle /\ EInitIdle /\ NInitIdle /\ FInitIdle /\ VInit

NormSpec == NormInit /\ [][NormalizeVector]_vars

Init == TInit /\ EInitIdle /\ NInitIdle /\ FInitIdle /\ VInitIdle

Next ==
    \/ execute
    \/ SearchCompletes
    \/ \E i \in 1..MaxHits : LoadFails(i)
    \/ \E i \in 1..MaxHits : LoadSucceeds(i)

Spec == Init /\ [][Next]_vars

(***************************************************************************)
(* Properties of execute.                                                  *)
(***************************************************************************)
Terminated == pc \in {"done", "panicked"}

\* the hits whose path resolved and whose file was loaded
Loaded(i) == status[i] \in {"ok", "panic"}

\* the text of hit i's file
TextOf(i) == Fs(hits[i].path)

\* the largest char boundary of text that does not exceed index
LargestBoundaryAtMost(text, index) ==
    CHOOSE b \in 0..index :
        /\ is_char_boundary(text, b)
        /\ \A c \in (b + 1)..index : ~is_char_boundary(text, c)

\* number of bytes of the character a leading byte starts; 0 for a
\* continuation byte
CharWidth(byte) ==
    IF byte < 128 THEN 1
    ELSE IF byte >= 240 THEN 4
    ELSE IF byte >= 224 THEN 3
    ELSE IF byte >= 192 THEN 2
    ELSE 0

\* s, read from byte k on, is a sequence of complete UTF-8 characters
RECURSIVE WholeChars(_, _)
WholeChars(s, k) ==
    IF k > Len(s) THEN TRUE
    ELSE LET w == CharWidth(s[k])
         IN  /\ w > 0
             /\ k + w - 1 <= Len(s)
             /\ \A j \in (k + 1)..(k + w - 1) : s[j] >= 128 /\ s[j] < 192
             /\ WholeChars(s, k + w)

\* the excerpts of the loaded hits from rank i on, each with the display
\* path and score of its hit and the bytes [start, end) of its file
RECURSIVE ExcerptsOfLoaded(_)
ExcerptsOfLoaded(i) ==
    IF i > Len(hits) THEN <<>>
    ELSE IF Loaded(i) /\ adj[i] # None
    THEN <<[path |-> to_string_lossy(hits[i].path),
            text |-> SubSeq(TextOf(i), adj[i].start + 1, adj[i].end),
            score |-> hits[i].score]>> \o ExcerptsOfLoaded(i + 1)
    ELSE IF Loaded(i) THEN <<None>> \o ExcerptsOfLoaded(i + 1)
    ELSE ExcerptsOfLoaded(i + 1)

\* C1: whenever the task of execute ends, it ends with Ok and a list that
\* holds exactly one excerpt for each hit whose path resolved and whose file
\* loaded (none for the others), each with its own hit's path, score and
\* slice.
C1_OneExcerptPerLoadedHit ==
    Terminated =>
        /\ pc = "done"
        /\ result # None
        /\ result.ok
        /\ result.value = ExcerptsOfLoaded(1)

\* C2: whenever the task ends, every hit whose own future returned an
\* excerpt has that excerpt, as computed from the hit and its file alone, in
\* the result, whatever happened to the other hits.
C2_FullIsolation ==
    Terminated =>
        \A i \in DOMAIN hits :
            status[i] = "ok" =>
                /\ excerpts[i] = Continue(hits[i], TextOf(i), overflow_checks).excerpt
                /\ result # None
                /\ \E k \in DOMAIN result.value : result.value[k] = excerpts[i]

\* C3: when both loops of a hit have finished, start has only moved forward,
\* end only backward, and start <= end <= text.len().
C3_BoundsNeverCross ==
    \A i \in DOMAIN hits :
        adj[i] # None =>
            /\ hits[i].start <= adj[i].start
            /\ adj[i].end <= hits[i].end
            /\ adj[i].start <= adj[i].end
            /\ adj[i].end <= Len(TextOf(i))

\* the clamped end of hit i lies inside a multi-byte character
EndMidChar(i) == ~is_char_boundary(TextOf(i), Min(hits[i].end, Len(TextOf(i))))

C5_StaleEndClamped ==
    \A i \in DOMAIN hits :
        (Loaded(i) /\ hits[i].end > Len(TextOf(i))) =>
            /\ status[i] = "ok"
            /\ adj[i].end <= Len(TextOf(i))
            /\ pc # "panicked"

(***************************************************************************)
(* Properties of the embedding code.                                       *)
(***************************************************************************)
\* the dimension each model's embeddings have
CanonicalDimension(m) ==
    CASE m = "OllamaNomicEmbedText" -> 768
      [] m = "OllamaMxbaiEmbedLarge" -> 1024
      [] m = "OpenaiTextEmbedding3Small" -> 1536
      [] m = "OpenaiTextEmbedding3Large" -> 3072

\* C6: normalize_embedding(v, model) returns Ok, with the variant of model,
\* exactly when len(v) is the canonical dimension of model; otherwise it
\* returns the mismatch error and no Embedding.
C6_BindIffCanonicalLength ==
    nout # None =>
        /\ nout.ok <=> nin.embedding.len = CanonicalDimension(nin.model)
        /\ nout.ok => /\ nout.value.tag = nin.model
                      /\ nout.value.array.len = nin.embedding.len
        /\ ~nout.ok => nout.error = Mismatched

\* a vector of 1536 components bound to OpenaiTextEmbedding3Large was
\* rejected with the mismatch error
C6_Witness ==
    /\ nout # None
    /\ nin.embedding.len = 1536
    /\ nin.model = "OpenaiTextEmbedding3Large"
    /\ ~nout.ok
    /\ nout.error = Mismatched

\* C7: every Embedding get_embedding returns, at any call, has the variant
\* of the provider's configured model and as many components as that
\* variant's canonical dimension.
C7_TagAndLengthAgree ==
    (eresult # None /\ eresult.ok) =>
        /\ eresult.value.tag = model
        /\ eresult.value.array.len = CanonicalDimension(eresult.value.tag)

\* the last of several calls returned an Embedding
C7_Witness ==
    /\ calls = MaxCalls
    /\ epc = "idle"
    /\ eresult # None
    /\ eresult.ok
    /\ bound # <<>>

\* the configured model belongs to the other provider
Foreign(p, m) ==
    \/ p = "ollama" /\ m \in {"OpenaiTextEmbedding3Small", "OpenaiTextEmbedding3Large"}
    \/ p = "openai" /\ m \in {"OllamaNomicEmbedText", "OllamaMxbaiEmbedLarge"}

\* C8: a provider configured with the other provider's model never calls
\* the HTTP client, and every get_embedding on it returns "Invalid model".
C8_ForeignModelNoRequest ==
    Foreign(provider, model) =>
        /\ requests = 0
        /\ epc = "idle"
        /\ response = None
        /\ calls > 0 => eresult = Err(InvalidModel)

\* get_embedding was called on such a provider and returned
C8_Witness ==
    /\ Foreign(provider, model)
    /\ calls = MaxCalls
    /\ eresult = Err(InvalidModel)
    /\ requests = 0

\* the body in `received` is everything the server sent
FullyReceived == received # None /\ transport = "no" /\ received = response

\* C9: once get_embedding has returned, a transport failure of this call
\* (sending the request, or reading the body) was returned as the transport
\* error, and the decode error was returned only for a fully received,
\* malformed body.
C9_TransportFailureSurfaces ==
    (epc = "idle" /\ calls > 0) =>
        /\ transport # "no" => eresult = Err(FailedToEmbed)
        /\ eresult = Err(UnableToPull) => FullyReceived

\* the body in `received` is a well-formed OpenAI response
WellFormedOpenai ==
    /\ received # None
    /\ received.json
    /\ {"object", "data", "model"} \subseteq received.fields

\* C10: when the OpenAI provider decoded a well-formed response, it called
\* normalize_embedding once, with the vector of the first element of `data`
\* and the configured model, and returned what that gave; it returned the
\* "No embedding data" error, without calling normalize_embedding, exactly
\* when `data` was empty.
C10_FirstElementOrEmpty ==
    (provider = "openai" /\ epc = "idle" /\ WellFormedOpenai) =>
        /\ eresult = Err(NoEmbeddingData) <=> received.data = <<>>
        /\ received.data = <<>> => bound = <<>>
        /\ received.data # <<>> =>
            /\ bound = <<[embedding |-> received.data[1], model |-> model]>>
            /\ eresult.ok => /\ eresult.value.tag = model
                             /\ eresult.value.array = normalize_vector(received.data[1])
            /\ ~eresult.ok => /\ eresult.error = Mismatched
                              /\ received.data[1].len # CanonicalDimension(model)

\* a response with two different vectors gave the Embedding of the first
C10_Witness ==
    /\ provider = "openai"
    /\ epc = "idle"
    /\ WellFormedOpenai
    /\ Len(received.data) = 2
    /\ received.data[1] # received.data[2]
    /\ received.data[2].len = CanonicalDimension(model)
    /\ eresult.ok
    /\ eresult.value.array = normalize_vector(received.data[1])

(***************************************************************************)
(* Properties of format_output.                                            *)
(***************************************************************************)
\* the position of the first newline (10) of s at or after k, Len(s) + 1
\* when there is none
NextNewline(s, k) ==
    LET nl == {j \in k..Len(s) : s[j] = 10}
    IN  IF nl = {} THEN Len(s) + 1
        ELSE CHOOSE j \in nl : \A h \in nl : j <= h

\* the lines of s from byte k on; a line ends at a newline or at the end
\* of s
RECURSIVE SplitLines(_, _)
SplitLines(s, k) ==
    IF k > Len(s) THEN <<>>
    ELSE LET j == NextNewline(s, k)
         IN  <<SubSeq(s, k, j - 1)>> \o SplitLines(s, j + 1)

\* the line that introduces an excerpt
IntroLine(excerpt) ==
    ExcerptFrom \o EncodeUtf8(excerpt.path) \o ScoreSep
        \o to_string(excerpt.score) \o <<58>>

\* the lines of the blocks of the excerpts from i on: the introducing line,
\* a line "~~~", the lines of the text, a line "~~~"
RECURSIVE BlockLines(_, _)
BlockLines(excerpts_, i) ==
    IF i > Len(excerpts_) THEN <<>>
    ELSE <<IntroLine(excerpts_[i]), <<126, 126, 126>>>>
            \o SplitLines(excerpts_[i].text, 1)
            \o <<<<126, 126, 126>>>>
            \o BlockLines(excerpts_, i + 1)

\* C11: the String format_output returns is, line by line, the header and
\* then one block per excerpt in list order: a line with the excerpt's path
\* and score, a line "~~~", the lines of the text, and a closing line "~~~"
\* of its own, for every excerpt text.
C11_FencedBlocks ==
    fout # None =>
        SplitLines(fout.body, 1)
            = <<SubSeq(Header, 1, Len(Header) - 1)>> \o BlockLines(fin, 1)

(***************************************************************************)
(* Order of the excerpts, termination of the loops.                        *)
(***************************************************************************)
\* the rank of the hit an excerpt's score belongs to
RankOf(excerpt) == CHOOSE i \in 1..MaxHits : ScoreOf(i) = excerpt.score

\* C13: the list execute returns holds the excerpts of the successful hits
\* by increasing rank of their hits: it is the subsequence of the successful
\* hits, whatever the order in which the loads completed or failed.
C13_RankPreserving ==
    pc = "done" =>
        /\ \A k \in DOMAIN result.value :
              /\ RankOf(result.value[k]) \in DOMAIN hits
              /\ status[RankOf(result.value[k])] = "ok"
              /\ result.value[k] = excerpts[RankOf(result.value[k])]
        /\ \A j, k \in DOMAIN result.value :
              j < k => RankOf(result.value[j]) < RankOf(result.value[k])
        /\ Len(result.value) = Cardinality({i \in DOMAIN hits : status[i] = "ok"})

\* two hits succeeded and execute returned two different excerpts
C13_Witness ==
    /\ pc = "done"
    /\ Len(result.value) = 2
    /\ result.value[1].text # result.value[2].text
    /\ \A i \in DOMAIN hits : status[i] = "ok"

\* C14: for every loaded hit both loops finish, each after at most as many
\* steps as fit inside one character (3: a character has at most 4 bytes).
C14_LoopsFinishWithinOneChar ==
    \A i \in DOMAIN hits :
        Loaded(i) =>
            /\ adj[i] # None
            /\ adj[i].ssteps <= 3
            /\ adj[i].esteps <= 3

(***************************************************************************)
(* Properties of normalize_vector.  Exact values are m * 2^e, m >= 0.      *)
(***************************************************************************)
\* the exact value of an f32 that is zero or a number, sign dropped
Exact(x) == IF x.k = "zero" THEN [m |-> 0, e |-> 0] ELSE [m |-> x.m, e |-> x.e]

ExactForm(m, e) == IF m = 0 THEN [m |-> 0, e |-> 0] ELSE OddForm(m, e)

ExactMul(x, y) == ExactForm(x.m * y.m, x.e + y.e)

ExactAdd(x, y) ==
    IF x.m = 0 THEN y
    ELSE IF y.m = 0 THEN x
    ELSE LET lo == Min(x.e, y.e)
         IN  ExactForm(x.m * 2^(x.e - lo) + y.m * 2^(y.e - lo), lo)

\* the exact sum of the squares of the components of v from i on
RECURSIVE ExactSumSquares(_, _)
ExactSumSquares(v, i) ==
    IF i > Len(v) THEN [m |-> 0, e |-> 0]
    ELSE ExactAdd(ExactMul(Exact(v[i]), Exact(v[i])), ExactSumSquares(v, i + 1))

Finite(v) == \A i \in DOMAIN v : v[i].k \in {"zero", "num"}

NonZero(v) == \E i \in DOMAIN v : v[i].k # "zero"

\* out is v scaled to norm 1: its squares sum to exactly 1, and each
\* component is v[i] / sqrt(sum of v[j]^2) (out[i]^2 * sum = v[i]^2, with
\* the sign of v[i])
Normalized(v, out) ==
    /\ Len(out) = Len(v)
    /\ Finite(out)
    /\ ExactSumSquares(out, 1) = [m |-> 1, e |-> 0]
    /\ \A i \in DOMAIN v :
          /\ ExactMul(ExactMul(Exact(out[i]), Exact(out[i])), ExactSumSquares(v, 1))
                = ExactMul(Exact(v[i]), Exact(v[i]))
          /\ v[i].k = "num" => out[i].k = "num" /\ out[i].s = v[i].s

NormalSum(v) ==
    LET sum == SumSquares32(v, 1, FZero)
    IN  sum.k = "num" /\ sum.e + BitLen(sum.m) - 1 >= -126

====
